---- MODULE Spec2Model ----
(***************************************************************************)
(* Model of src/dashboard.py: the sales dashboard pipeline.                *)
(*                                                                         *)
(*   load_and_preprocess_data  -> enriched record set (df)                 *)
(*   update_dashboard          -> filtered view, metrics, chart series,    *)
(*                                insights, for one filter selection       *)
(*                                                                         *)
(* Numbers.  Sales, quantities and profits are integers here; every value  *)
(* the code obtains by a float division is a "float" record                *)
(*   [k |-> "fin", n, d]  the rational n/d in lowest terms, d > 0          *)
(*   [k |-> "inf", n, d]  +inf (n = 1) or -inf (n = -1), d = 0             *)
(*   [k |-> "nan", n, d]  NaN, n = d = 0                                   *)
(* which is what numpy's true division produces (a division by zero is a   *)
(* RuntimeWarning and an inf/nan result there, never an exception).        *)
(***************************************************************************)
EXTENDS Integers, Sequences, FiniteSets, TLC

VARIABLES pc, csv, df, selected, filtered_df, metrics, product_share,
          insights, response, time_of_day_fig, sales_rep_fig

vars == <<pc, csv, df, selected, filtered_df, metrics, product_share,
          insights, response, time_of_day_fig, sales_rep_fig>>

(* ------------------------------ bounds -------------------------------- *)
MaxRows == 2        \* rows of a CSV file of the filter family
MaxSel == 2         \* values selected at once in a multi-select dropdown
MaxMonths == 14     \* rows (one per month) of a CSV file of the growth family
MaxProducts == 7    \* rows (one per product) of a CSV file of the share family
MaxReps == 11       \* rows (one per sales rep) of a CSV file of the rep family

(* ------------------------- float arithmetic --------------------------- *)
Abs(x) == IF x < 0 THEN -x ELSE x

RECURSIVE Gcd(_, _)
Gcd(a, b) == IF b = 0 THEN a ELSE Gcd(b, a % b)

NaN == [k |-> "nan", n |-> 0, d |-> 0]
Inf(s) == [k |-> "inf", n |-> s, d |-> 0]
Fin(a, b) ==
    LET g == Gcd(Abs(a), Abs(b))
        s == IF b < 0 THEN -1 ELSE 1
    IN  [k |-> "fin", n |-> (s * a) \div g, d |-> (s * b) \div g]
Num(i) == Fin(i, 1)

\* numpy scalar a / b on two finite numbers
FDiv(a, b) ==
    IF b # 0 THEN Fin(a, b)
    ELSE IF a = 0 THEN NaN
    ELSE IF a > 0 THEN Inf(1) ELSE Inf(-1)

\* float f * positive integer c
FMul(f, c) == IF f.k = "fin" THEN Fin(f.n * c, f.d) ELSE f

IsZero(f) == f.k = "fin" /\ f.n = 0

(* ----------------------------- helpers -------------------------------- *)
RECURSIVE SeqSum(_)
SeqSum(s) == IF s = <<>> THEN 0 ELSE Head(s) + SeqSum(Tail(s))

RECURSIVE SortedInts(_)
SortedInts(S) ==
    IF S = {} THEN <<>>
    ELSE LET m == CHOOSE x \in S : \A y \in S : x <= y
         IN  <<m>> \o SortedInts(S \ {m})

\* frame[col]: a column of a frame, by name
Col(rows, col) == [i \in DOMAIN rows |-> rows[i][col]]

\* frame[col].unique(), as a set
Unique(rows, col) == {rows[i][col] : i \in DOMAIN rows}

\* frame.groupby(by)[col].sum().reset_index(): one entry per distinct key,
\* ascending by key (rank[k] is the sort position of key k), with the sum of
\* col over the rows of that key
GroupBySum(rows, by, col, rank) ==
    LET keys == Unique(rows, by)
        order == SortedInts({rank[k] : k \in keys})
    IN  [j \in 1..Len(order) |->
            LET k == CHOOSE x \in keys : rank[x] = order[j]
            IN  [key |-> k,
                 sum |-> SeqSum(Col(SelectSeq(rows, LAMBDA r : r[by] = k), col))]]

\* numeric keys sort by value
IntRank(rows, by) == [k \in Unique(rows, by) |-> k]

\* strings sort alphabetically
TodRank ==
    [t \in {"Morning", "Afternoon", "Evening", "Night"} |->
        CASE t = "Afternoon" -> 1
          [] t = "Evening" -> 2
          [] t = "Morning" -> 3
          [] t = "Night" -> 4]

\* series.idxmax(): position of the first maximum
IdxMax(s) ==
    CHOOSE i \in DOMAIN s :
        /\ \A j \in DOMAIN s : s[j].sum <= s[i].sum
        /\ \A j \in DOMAIN s : j < i => s[j].sum < s[i].sum

\* frame.sort_values(col, ascending=False): descending by sum; rows with
\* equal sums keep their group order
RECURSIVE SortDesc(_)
SortDesc(s) ==
    IF s = <<>> THEN <<>>
    ELSE LET i == IdxMax(s)
         IN  <<s[i]>> \o SortDesc(SubSeq(s, 1, i - 1) \o SubSeq(s, i + 1, Len(s)))

HeadN(s, c) == SubSeq(s, 1, IF Len(s) < c THEN Len(s) ELSE c)

(* --------------------------- preprocessing ---------------------------- *)
time_of_day ==
    [Morning |-> <<5, 11>>, Afternoon |-> <<12, 16>>,
     Evening |-> <<17, 20>>, Night |-> <<21, 4>>]

\* variant: Night tested as the range 21..4 before the default branch
categorize_time_of_day_RangeNight(hour) ==
    IF time_of_day.Morning[1] <= hour /\ hour <= time_of_day.Morning[2]
        THEN "Morning"
    ELSE IF time_of_day.Afternoon[1] <= hour /\ hour <= time_of_day.Afternoon[2]
        THEN "Afternoon"
    ELSE IF time_of_day.Night[1] <= hour /\ hour <= time_of_day.Night[2]
        THEN "Night"
    ELSE "Evening"

categorize_time_of_day(hour) ==
    IF time_of_day.Morning[1] <= hour /\ hour <= time_of_day.Morning[2]
        THEN "Morning"
    ELSE IF time_of_day.Afternoon[1] <= hour /\ hour <= time_of_day.Afternoon[2]
        THEN "Afternoon"
    ELSE IF time_of_day.Evening[1] <= hour /\ hour <= time_of_day.Evening[2]
        THEN "Evening"
    ELSE "Night"

\* strftime('%Y-%m') of a date with a 4-digit year: keys compare as strings
\* exactly as the numbers year*100 + month compare
YearMonthKey(date) == date.year * 100 + date.month

Enrich(r) ==
    [Region_ID |-> r.Region_ID, Hour |-> r.Hour, Year |-> r.Year,
     Month |-> r.Month, Product_ID |-> r.Product_ID,
     Sales_Rep_ID |-> r.Sales_Rep_ID, Quantity_Sold |-> r.Quantity_Sold,
     Total_Sales |-> r.Total_Sales, Profit |-> r.Profit,
     Time_of_Day |-> categorize_time_of_day(r.Hour),
     Year_Month |-> YearMonthKey(r.Order_Date),
     Return_Flag |-> (r.Return_Flag # 0),
     Profit_Margin |-> FMul(FDiv(r.Profit, r.Total_Sales), 100),
     Order_Size |-> FDiv(r.Total_Sales, r.Quantity_Sold)]

load_and_preprocess_data(file) == [i \in DOMAIN file |-> Enrich(file[i])]

(* ------------------------------ metrics ------------------------------- *)
MonthlySales(view) ==
    GroupBySum(view, "Year_Month", "Total_Sales", IntRank(view, "Year_Month"))

\* ((current - base) / base) * 100
Growth(current, base) == FMul(FDiv(current - base, base), 100)

\* variant: growth measured from the first month instead of the previous one
MoM_Growth_FromFirst(monthly_sales) ==
    IF Len(monthly_sales) >= 2
    THEN Growth(monthly_sales[Len(monthly_sales)].sum, monthly_sales[1].sum)
    ELSE Num(0)

MoM_Growth(monthly_sales) ==
    IF Len(monthly_sales) >= 2
    THEN LET current_month == monthly_sales[Len(monthly_sales)].sum
             previous_month == monthly_sales[Len(monthly_sales) - 1].sum
         IN  Growth(current_month, previous_month)
    ELSE Num(0)

\* variant: a lookback of 12 positions instead of 13
YoY_Growth_TwelveBack(monthly_sales) ==
    IF Len(monthly_sales) >= 13
    THEN Growth(monthly_sales[Len(monthly_sales)].sum,
                monthly_sales[Len(monthly_sales) - 11].sum)
    ELSE Num(0)

YoY_Growth(monthly_sales) ==
    IF Len(monthly_sales) >= 13
    THEN LET current_month == monthly_sales[Len(monthly_sales)].sum
             year_ago_month == monthly_sales[Len(monthly_sales) - 12].sum
         IN  Growth(current_month, year_ago_month)
    ELSE Num(0)

\* frame[col].sum()
TotalOf(view, col) == SeqSum(Col(view, col))

\* Series.mean() of a boolean column: count of True / number of rows
ReturnMean(view) ==
    FDiv(Len(SelectSeq(view, LAMBDA r : r.Return_Flag)), Len(view))

calculate_advanced_metrics(view) ==
    LET monthly_sales == MonthlySales(view)
    IN  [Total_Sales |-> Num(TotalOf(view, "Total_Sales")),
         Total_Quantity |-> Num(TotalOf(view, "Quantity_Sold")),
         Total_Profit |-> Num(TotalOf(view, "Profit")),
         Avg_Order_Size |-> FDiv(TotalOf(view, "Total_Sales"),
                                 TotalOf(view, "Quantity_Sold")),
         Return_Rate |-> FMul(ReturnMean(view), 100),
         MoM_Growth |-> MoM_Growth(monthly_sales),
         YoY_Growth |-> YoY_Growth(monthly_sales)]

(* --------------------------- product share ---------------------------- *)
ProductSales(view) ==
    GroupBySum(view, "Product_ID", "Total_Sales", IntRank(view, "Product_ID"))

\* variant: head(5) of the unsorted frame
TopProducts_Unsorted(product_sales) == HeadN(product_sales, 5)

TopProducts(product_sales) == HeadN(SortDesc(product_sales), 5)

SumOf(series) == SeqSum([i \in DOMAIN series |-> series[i].sum])

OtherProducts(product_sales, top_products) ==
    [key |-> "Others", sum |-> SumOf(product_sales) - SumOf(top_products)]

\* the plot_data frame handed to px.pie: the top products, then "Others"
plot_product_sales_share(view) ==
    LET product_sales == ProductSales(view)
        top_products == TopProducts(product_sales)
    IN  top_products \o <<OtherProducts(product_sales, top_products)>>

(* ------------------------- time of day series ------------------------ *)
TodSales(view) ==
    GroupBySum(view, "Time_of_Day", "Total_Sales", TodRank)

time_order == <<"Morning", "Afternoon", "Evening", "Night">>

\* pd.Categorical(values, categories, ordered=True): the code of a value is
\* its position in categories
CategoryCode(categories, value) ==
    CHOOSE c \in DOMAIN categories : categories[c] = value

\* frame.sort_values(col) on a categorical column: ascending by code (the keys
\* of a grouped frame are distinct, so no two rows tie)
SortByCategory(series, categories) ==
    LET codes == SortedInts({CategoryCode(categories, series[i].key) :
                                i \in DOMAIN series})
    IN  [j \in 1..Len(codes) |->
            series[CHOOSE i \in DOMAIN series :
                      series[i].key = categories[codes[j]]]]

\* variant: the grouped frame without the categorical sort
plot_sales_by_time_of_day_Unsorted(view) == TodSales(view)

\* the tod_sales frame handed to px.bar
plot_sales_by_time_of_day(view) == SortByCategory(TodSales(view), time_order)

(* ----------------------------- rep ranking ---------------------------- *)
\* frame.groupby('Sales_Rep_ID').agg({'Total_Sales': 'sum', 'Profit': 'sum'})
RepData(view) ==
    LET sales == GroupBySum(view, "Sales_Rep_ID", "Total_Sales",
                            IntRank(view, "Sales_Rep_ID"))
        profit == GroupBySum(view, "Sales_Rep_ID", "Profit",
                             IntRank(view, "Sales_Rep_ID"))
    IN  [j \in DOMAIN sales |->
            [key |-> sales[j].key, sum |-> sales[j].sum, Profit |-> profit[j].sum]]

\* variant: head(10) of the unsorted frame
TopReps_Unsorted(rep_data) == HeadN(rep_data, 10)

TopReps(rep_data) == HeadN(SortDesc(rep_data), 10)

\* the top_reps frame handed to px.bar
create_sales_rep_performance_chart(view) == TopReps(RepData(view))

(* ------------------------------ insights ------------------------------ *)

\* variant: the first group instead of the group of the maximum
PeakTime_First(tod_sales) == tod_sales[1].key

PeakTime(tod_sales) == tod_sales[IdxMax(tod_sales)].key

PeakSalesPercentage(tod_sales, peak_time, view) ==
    LET i == CHOOSE j \in DOMAIN tod_sales : tod_sales[j].key = peak_time
    IN  FMul(FDiv(tod_sales[i].sum, TotalOf(view, "Total_Sales")), 100)

\* round half to even of n/d (d > 0) to an integer
RoundHalfEven(n, d) ==
    LET q == n \div d
        r == n % d
    IN  IF 2 * r < d THEN q
        ELSE IF 2 * r > d THEN q + 1
        ELSE IF q % 2 = 0 THEN q ELSE q + 1

\* f"{x:.1f}" and f"{x:,.2f}": the number in units of 10^-digits ("nan" and
\* "inf" print as such)
Fmt(f, scale) ==
    IF f.k = "fin" THEN [k |-> "fin", n |-> RoundHalfEven(f.n * scale, f.d), d |-> scale]
    ELSE f

\* Every idxmax of an empty series raises ValueError; the first one is on
\* tod_sales.  The texts are kept as the values they are formatted from.
generate_insights_and_recommendations(view) ==
    IF view = <<>>
    THEN [raised |-> "ValueError", insights |-> <<>>, recommendations |-> <<>>]
    ELSE
    LET total == TotalOf(view, "Total_Sales")
        tod_sales == TodSales(view)
        peak_time == PeakTime(tod_sales)
        peak_sales_percentage == PeakSalesPercentage(tod_sales, peak_time, view)
        product_sales == ProductSales(view)
        top_product == product_sales[IdxMax(product_sales)]
        region_sales ==
            GroupBySum(view, "Region_ID", "Total_Sales", IntRank(view, "Region_ID"))
        top_region == region_sales[IdxMax(region_sales)]
        product_profit ==
            GroupBySum(view, "Product_ID", "Profit", IntRank(view, "Product_ID"))
        high_margin_product == product_profit[IdxMax(product_profit)]
    IN  [raised |-> "none",
         insights |->
            << [subject |-> peak_time, amount |-> Num(0),
                share |-> peak_sales_percentage,
                text_share |-> Fmt(peak_sales_percentage, 10)],
               [subject |-> top_product.key, amount |-> Fmt(Num(top_product.sum), 100),
                share |-> FMul(FDiv(top_product.sum, total), 100),
                text_share |-> Fmt(FMul(FDiv(top_product.sum, total), 100), 10)],
               [subject |-> top_region.key, amount |-> Fmt(Num(top_region.sum), 100),
                share |-> FMul(FDiv(top_region.sum, total), 100),
                text_share |-> Fmt(FMul(FDiv(top_region.sum, total), 100), 10)] >>,
         recommendations |->
            << [subject |-> peak_time, amount |-> Num(0)],
               [subject |-> high_margin_product.key,
                amount |-> Fmt(Num(high_margin_product.sum), 100)] >>]

(* ------------------------------ filtering ----------------------------- *)
\* "if selected_regions:" is false for None and for the empty list; both are
\* the empty set here.  "if selected_year:" is false for None, which is 0.
\* variant: the region filter without its "if selected_regions" guard
FilterRegions_Unguarded(view, selected_regions) ==
    SelectSeq(view, LAMBDA r : r.Region_ID \in selected_regions)

FilterRegions(view, selected_regions) ==
    IF selected_regions # {}
    THEN SelectSeq(view, LAMBDA r : r.Region_ID \in selected_regions)
    ELSE view

FilterTimes(view, selected_times) ==
    IF selected_times # {}
    THEN SelectSeq(view, LAMBDA r : r.Time_of_Day \in selected_times)
    ELSE view

FilterYear(view, selected_year) ==
    IF selected_year # 0
    THEN SelectSeq(view, LAMBDA r : r.Year = selected_year)
    ELSE view

ApplyFilters(frame, selected_regions, selected_times, selected_year) ==
    FilterYear(FilterTimes(FilterRegions(frame, selected_regions),
                           selected_times), selected_year)

\* the values the callback returns to the page
Response(m, tod, share, reps, ins) ==
    IF ins.raised # "none"
    THEN [status |-> ins.raised]
    ELSE [status |-> "ok",
          total_sales |-> Fmt(m.Total_Sales, 100),
          total_quantity |-> m.Total_Quantity,
          total_profit |-> Fmt(m.Total_Profit, 100),
          avg_order_size |-> Fmt(m.Avg_Order_Size, 100),
          mom_growth |-> Fmt(m.MoM_Growth, 100),
          return_rate |-> Fmt(m.Return_Rate, 100),
          time_of_day |-> tod,
          product_share |-> share,
          sales_rep |-> reps,
          insights_list |-> ins.insights,
          recommendations_list |-> ins.recommendations]

(* --------------------------- dropdown options ------------------------- *)
TimeOptions == {"Morning", "Afternoon", "Evening", "Night"}
RegionOptions == Unique(df, "Region_ID")
YearOptions == Unique(df, "Year")

\* One edit of a multi-select dropdown that holds S: add an option (up to
\* MaxSel values), remove a value, or clear it.
Edits(S, options) ==
    ({S \cup {x} : x \in IF Cardinality(S) < MaxSel THEN options \ S ELSE {}}
        \cup {S \ {x} : x \in S} \cup {{}}) \ {S}

(* ------------------------------- actions ------------------------------ *)
NoSelection == [called |-> FALSE, regions |-> {}, times |-> {}, year |-> 0]

create_dash_app ==
    /\ pc = "start"
    /\ LET frame == load_and_preprocess_data(csv)
           ins == generate_insights_and_recommendations(frame)
       IN  /\ df' = frame
           /\ metrics' = calculate_advanced_metrics(frame)
           /\ insights' = ins
           /\ pc' = IF ins.raised # "none" THEN "failed" ELSE "serving"
    /\ UNCHANGED <<csv, selected, filtered_df, product_share, response,
                   time_of_day_fig, sales_rep_fig>>

\* variant: each call filters what the call before it left, not a copy of df
update_dashboard_Cumulative(selected_regions, selected_times, selected_year) ==
    /\ pc = "serving"
    /\ LET view == ApplyFilters(IF selected.called THEN filtered_df ELSE df,
                             selected_regions, selected_times, selected_year)
           m == calculate_advanced_metrics(view)
           tod == plot_sales_by_time_of_day(view)
           share == plot_product_sales_share(view)
           reps == create_sales_rep_performance_chart(view)
           ins == generate_insights_and_recommendations(view)
       IN  /\ filtered_df' = view
           /\ metrics' = m
           /\ time_of_day_fig' = tod
           /\ product_share' = share
           /\ sales_rep_fig' = reps
           /\ insights' = ins
           /\ response' = Response(m, tod, share, reps, ins)
    /\ selected' = [called |-> TRUE, regions |-> selected_regions,
                    times |-> selected_times, year |-> selected_year]
    /\ UNCHANGED <<pc, csv, df>>

update_dashboard(selected_regions, selected_times, selected_year) ==
    /\ pc = "serving"
    /\ LET view == ApplyFilters(df, selected_regions, selected_times, selected_year)
           m == calculate_advanced_metrics(view)
           tod == plot_sales_by_time_of_day(view)
           share == plot_product_sales_share(view)
           reps == create_sales_rep_performance_chart(view)
           ins == generate_insights_and_recommendations(view)
       IN  /\ filtered_df' = view
           /\ metrics' = m
           /\ time_of_day_fig' = tod
           /\ product_share' = share
           /\ sales_rep_fig' = reps
           /\ insights' = ins
           /\ response' = Response(m, tod, share, reps, ins)
    /\ selected' = [called |-> TRUE, regions |-> selected_regions,
                    times |-> selected_times, year |-> selected_year]
    /\ UNCHANGED <<pc, csv, df>>

\* The callback fires with the values of the three dropdowns when the page
\* loads (nothing selected yet) and whenever one of the dropdowns changes.
PageLoad == update_dashboard({}, {}, 0)

RegionFilterChange ==
    /\ selected.called
    /\ \E selected_regions \in Edits(selected.regions, RegionOptions) :
          update_dashboard(selected_regions, selected.times, selected.year)

TimeFilterChange ==
    /\ selected.called
    /\ \E selected_times \in Edits(selected.times, TimeOptions) :
          update_dashboard(selected.regions, selected_times, selected.year)

YearFilterChange ==
    /\ selected.called
    /\ \E selected_year \in (YearOptions \cup {0}) \ {selected.year} :
          update_dashboard(selected.regions, selected.times, selected_year)

Next ==
    \/ create_dash_app
    \/ PageLoad
    \/ RegionFilterChange
    \/ TimeFilterChange
    \/ YearFilterChange

(* ---------------------------- input files ----------------------------- *)
Row(region, hour, year, month, product, rep, qty, sales, profit, ret) ==
    [Region_ID |-> region, Hour |-> hour, Year |-> year, Month |-> month,
     Order_Date |-> [year |-> year, month |-> month],
     Product_ID |-> product, Sales_Rep_ID |-> rep, Quantity_Sold |-> qty,
     Total_Sales |-> sales, Profit |-> profit, Return_Flag |-> ret]

SeqsUpTo(S, c) == UNION {[1..m -> S] : m \in 0..c}

\* filter family: files of up to MaxRows rows drawn from five sample rows that
\* differ in region, hour, year, month, quantity, sales and return flag
FilterRows ==
    { Row(1, 9, 2023, 1, 1, 1, 2, 3, 1, 0),
      Row(1, 22, 2024, 2, 2, 2, 1, 1, 1, 1),
      Row(2, 13, 2023, 2, 1, 1, 4, 2, 0, 0),
      Row(2, 9, 2024, 2, 2, 2, 1, -1, -1, 1),
      Row(2, 18, 2023, 1, 3, 3, 3, 4, 2, 0) }

FilterFiles == SeqsUpTo(FilterRows, MaxRows)

\* hour family: one file per hour of the day, and the file with all of them
Hours == 0..23

HourRow(hour) == Row(1, hour, 2023, 1, 1, 1, 1, 1 + ((hour * 7) % 24), 1, 0)

HourFiles ==
    {<<HourRow(h)>> : h \in Hours} \cup {[i \in 1..24 |-> HourRow(i - 1)]}

\* the i-th calendar month counted from January 2023
CalYear(i) == 2023 + (i - 1) \div 12
CalMonth(i) == ((i - 1) % 12) + 1

Cycles(vals, c) == [1..c -> vals]

\* growth family: one row per month for n months, newest first; the months
\* are consecutive, or skip July 2023 when gap is set; months alternate
\* between a morning and an afternoon hour; the sales of the i-th month come
\* from a repeating cycle of five amounts, the last of them 1; then a second
\* row for the first month
GrowthRow(i, cyc, gap) ==
    LET c == IF gap /\ i > 6 THEN i + 1 ELSE i
    IN  Row(1, IF i % 2 = 1 THEN 9 ELSE 13, CalYear(c), CalMonth(c), 1, 1, 1,
            IF i % 5 = 0 THEN 1 ELSE cyc[i % 5], 1, 0)

GrowthFile(n, cyc, gap) ==
    [j \in 1..n |-> GrowthRow(n + 1 - j, cyc, gap)]
        \o <<Row(1, 9, 2023, 1, 1, 1, 1, 1, 1, 0)>>

GrowthFiles ==
    {GrowthFile(n, cyc, gap) : n \in (MaxMonths - 1)..MaxMonths,
                               cyc \in Cycles({0, 3}, 4), gap \in BOOLEAN}

\* share family: one row per product for n products, products alternating
\* between a morning and a night hour, the sales of product i taken from a
\* repeating cycle of three amounts; then a second row for the first product
ShareRow(i, cyc) ==
    Row(1, IF i % 2 = 1 THEN 9 ELSE 22, 2023, 1, i, 1, 1, cyc[(i % 3) + 1], 1, 0)

ShareFile(n, cyc) ==
    [j \in 1..n |-> ShareRow(n + 1 - j, cyc)]
        \o <<Row(1, 9, 2023, 1, 1, 1, 1, 1, 1, 0)>>

ShareFiles ==
    {ShareFile(n, cyc) : n \in (MaxProducts - 1)..MaxProducts,
                         cyc \in Cycles({-1, 0, 2}, 3)}

\* rep family: one row per sales rep for n reps, reps alternating between a
\* morning and a night hour, the sales and the profit of rep i taken from a
\* repeating cycle of three amounts (the profit one place further on); then
\* a second row for the first rep
RepRow(i, cyc) ==
    Row(1, IF i % 2 = 1 THEN 9 ELSE 22, 2023, 1, 1, i, 1, cyc[(i % 3) + 1],
        cyc[((i + 1) % 3) + 1], 0)

RepFile(n, cyc) ==
    [j \in 1..n |-> RepRow(n + 1 - j, cyc)]
        \o <<Row(1, 9, 2023, 1, 1, 1, 1, 1, 1, 0)>>

RepFiles ==
    {RepFile(n, cyc) : n \in (MaxReps - 1)..MaxReps, cyc \in Cycles({0, 1, 3}, 3)}

NoMetrics ==
    [Total_Sales |-> Num(0), Total_Quantity |-> Num(0), Total_Profit |-> Num(0),
     Avg_Order_Size |-> Num(0), Return_Rate |-> Num(0), MoM_Growth |-> Num(0),
     YoY_Growth |-> Num(0)]

InitWith(files) ==
    /\ pc = "start"
    /\ csv \in files
    /\ df = <<>>
    /\ selected = NoSelection
    /\ filtered_df = <<>>
    /\ metrics = NoMetrics
    /\ product_share = <<>>
    /\ insights = [raised |-> "none", insights |-> <<>>, recommendations |-> <<>>]
    /\ response = [status |-> "none"]
    /\ time_of_day_fig = <<>>
    /\ sales_rep_fig = <<>>

Init == InitWith(FilterFiles)

Spec == Init /\ [][Next]_vars

InitHours == InitWith(HourFiles)
SpecHours == InitHours /\ [][Next]_vars

InitGrowth == InitWith(GrowthFiles)
SpecGrowth == InitGrowth /\ [][Next]_vars

InitShare == InitWith(ShareFiles)
SpecShare == InitShare /\ [][Next]_vars

InitReps == InitWith(RepFiles)
SpecReps == InitReps /\ [][Next]_vars

\* the view the last pass computed on
View == IF selected.called THEN filtered_df ELSE df

(* ======================= properties of the pipeline =================== *)
\* the sum of column col over the rows i of the view in the index set I
RECURSIVE SumOver(_, _, _)
SumOver(view, I, col) ==
    IF I = {} THEN 0
    ELSE LET i == CHOOSE x \in I : TRUE
         IN  view[i][col] + SumOver(view, I \ {i}, col)

\* the summed sales of the rows of the view whose column by holds value
SalesWhere(view, by, value) ==
    SumOver(view, {i \in DOMAIN view : view[i][by] = value}, "Total_Sales")
Total(view) == SumOver(view, DOMAIN view, "Total_Sales")
Quantity(view) == SumOver(view, DOMAIN view, "Quantity_Sold")

\* a/b*100 as an exact number, b # 0
Percent(a, b) == Fin(100 * a, b)

(* ---- C1 ---- *)
Matches(r) ==
    /\ selected.regions = {} \/ r.Region_ID \in selected.regions
    /\ selected.times = {} \/ r.Time_of_Day \in selected.times
    /\ selected.year = 0 \/ r.Year = selected.year

\* C1: after update_dashboard the view holds exactly the records of the
\* enriched set that match the selection: region in the region set (or the
\* set empty), time of day in the time set (or the set empty), year equal to
\* the selected year (or none selected); none dropped, none added.
C1_ViewIsExactlyTheMatches ==
    selected.called => filtered_df = SelectSeq(df, Matches)

C1_Witness ==
    /\ selected.called
    /\ Cardinality(selected.regions) = 2
    /\ selected.times # {}
    /\ selected.year # 0
    /\ Len(filtered_df) = 1
    /\ Len(df) = 2

(* ---- C2 ---- *)
AllZero(m) ==
    /\ IsZero(m.Total_Sales) /\ IsZero(m.Total_Quantity) /\ IsZero(m.Total_Profit)
    /\ IsZero(m.Avg_Order_Size) /\ IsZero(m.Return_Rate)
    /\ IsZero(m.MoM_Growth) /\ IsZero(m.YoY_Growth)

\* C2: when the selection matches no row, every field of the metrics
\* computed on the empty view is 0 (no NaN, no Inf).
C2_EmptyViewMetricsAllZero ==
    (selected.called /\ filtered_df = <<>>) => AllZero(metrics)

(* ---- C3 ---- *)
\* C3: the average order size is total sales / total quantity when the total
\* quantity is positive, and 0 when the view is empty or the total quantity
\* is 0.
C3_AvgOrderSize ==
    pc # "start" =>
        /\ Quantity(View) > 0 =>
              metrics.Avg_Order_Size = Fin(Total(View), Quantity(View))
        /\ (View = <<>> \/ Quantity(View) = 0) => IsZero(metrics.Avg_Order_Size)

(* ---- C4, C5, C9 ---- *)
MonthsOf(view) == {view[i].Year_Month : i \in DOMAIN view}
MonthSales(view, m) == SalesWhere(view, "Year_Month", m)
\* the c-th month of the view counted from the latest one (c = 1)
MonthBack(view, c) ==
    CHOOSE m \in MonthsOf(view) :
        Cardinality({x \in MonthsOf(view) : x > m}) = c - 1
LastSales(view) == MonthSales(view, MonthBack(view, 1))
PrevSales(view) == MonthSales(view, MonthBack(view, 2))
YearAgoSales(view) == MonthSales(view, MonthBack(view, 13))

\* C4: MoM growth is 0 when the view has fewer than 2 distinct months;
\* otherwise it is (last - prev) / prev * 100 for the summed sales of the
\* latest and the second latest month of the view (prev # 0, where the
\* quotient is a number).
C4_MoMGrowth ==
    pc # "start" =>
        IF Cardinality(MonthsOf(View)) < 2
        THEN metrics.MoM_Growth = Num(0)
        ELSE PrevSales(View) # 0 =>
                metrics.MoM_Growth =
                    Percent(LastSales(View) - PrevSales(View), PrevSales(View))

C4_Witness ==
    /\ selected.called
    /\ Cardinality(MonthsOf(filtered_df)) >= 2
    /\ Cardinality(MonthsOf(filtered_df)) < Cardinality(MonthsOf(df))
    /\ MonthBack(filtered_df, 1) # MonthBack(df, 1)
    /\ PrevSales(filtered_df) # 0
    /\ metrics.MoM_Growth = Percent(LastSales(filtered_df) - PrevSales(filtered_df),
                                    PrevSales(filtered_df))
    /\ ~IsZero(metrics.MoM_Growth)

\* C5: when the second latest month of the view sums to 0, MoM growth is the
\* fallback 0, and when the month 13 positions back sums to 0, YoY growth is
\* the fallback 0; no NaN or Inf reaches the metrics.
C5_ZeroBaseFallsBackToZero ==
    pc # "start" =>
        /\ (Cardinality(MonthsOf(View)) >= 2 /\ PrevSales(View) = 0)
              => IsZero(metrics.MoM_Growth)
        /\ (Cardinality(MonthsOf(View)) >= 13 /\ YearAgoSales(View) = 0)
              => IsZero(metrics.YoY_Growth)

\* C9: YoY growth is 0 when the view has fewer than 13 distinct months;
\* otherwise it is (m[-1] - m[-13]) / m[-13] * 100 for the monthly sums in
\* ascending month order, by position, whatever calendar months are missing
\* in between (m[-13] # 0, where the quotient is a number).
C9_YoYGrowth ==
    pc # "start" =>
        IF Cardinality(MonthsOf(View)) < 13
        THEN metrics.YoY_Growth = Num(0)
        ELSE YearAgoSales(View) # 0 =>
                metrics.YoY_Growth =
                    Percent(LastSales(View) - YearAgoSales(View), YearAgoSales(View))

\* a view of at least 13 months with a calendar gap, and a nonzero growth
C9_Witness ==
    /\ selected.called
    /\ Cardinality(MonthsOf(filtered_df)) >= 13
    /\ 202307 \notin MonthsOf(filtered_df)
    /\ YearAgoSales(filtered_df) # 0
    /\ metrics.YoY_Growth = Percent(LastSales(filtered_df) - YearAgoSales(filtered_df),
                                    YearAgoSales(filtered_df))
    /\ ~IsZero(metrics.YoY_Growth)

(* ---- C6 ---- *)
ProductsOf(view) == {view[i].Product_ID : i \in DOMAIN view}
ProductTotal(view, p) == SalesWhere(view, "Product_ID", p)
ShareTop == SubSeq(product_share, 1, Len(product_share) - 1)
ShareOthers == product_share[Len(product_share)]
ShareTopKeys == {ShareTop[i].key : i \in DOMAIN ShareTop}

\* the series is the (up to) 5 best selling products of the view, each with
\* its summed sales, then "Others", and the amounts add up to the total
ShareIsTopFivePlusOthers ==
    /\ Len(product_share) >= 1
    /\ ShareOthers.key = "Others"
    /\ Len(ShareTop) =
          (IF Cardinality(ProductsOf(filtered_df)) < 5
           THEN Cardinality(ProductsOf(filtered_df)) ELSE 5)
    /\ Cardinality(ShareTopKeys) = Len(ShareTop)
    /\ ShareTopKeys \subseteq ProductsOf(filtered_df)
    /\ \A i \in DOMAIN ShareTop :
          /\ ShareTop[i].sum = ProductTotal(filtered_df, ShareTop[i].key)
          /\ \A p \in ProductsOf(filtered_df) \ ShareTopKeys :
                ProductTotal(filtered_df, p) <= ShareTop[i].sum
    /\ SumOf(ShareTop) + ShareOthers.sum = Total(filtered_df)
    /\ Cardinality(ProductsOf(filtered_df)) < 5 => ShareOthers.sum = 0

\* C6 as stated: for every view the product share series is the 5 best
\* selling products plus "Others", top 5 + Others is the total sales, Others
\* is 0 with fewer than 5 products, and Others is never negative.
C6_OthersNeverNegative ==
    selected.called => (ShareIsTopFivePlusOthers /\ ShareOthers.sum >= 0)

\* C6 amended: as above, with Others >= 0 for the views in which no product
\* has negative summed sales.
C6_ShareSeries ==
    selected.called =>
        /\ ShareIsTopFivePlusOthers
        /\ (\A p \in ProductsOf(filtered_df) : ProductTotal(filtered_df, p) >= 0)
              => ShareOthers.sum >= 0

C6_Witness ==
    /\ selected.called
    /\ Cardinality(ProductsOf(filtered_df)) > 5
    /\ \A p \in ProductsOf(filtered_df) : ProductTotal(filtered_df, p) >= 0
    /\ \E p, q \in ProductsOf(filtered_df) :
          ProductTotal(filtered_df, p) # ProductTotal(filtered_df, q)
    /\ ShareIsTopFivePlusOthers
    /\ ShareOthers.sum > 0

(* ---- C7 ---- *)
CategoryTable(h) ==
    CASE h \in 5..11 -> "Morning"
      [] h \in 12..16 -> "Afternoon"
      [] h \in 17..20 -> "Evening"
      [] h \in (21..23) \cup (0..4) -> "Night"

\* C7: every hour 0..23 gets exactly one category: Morning for 5..11,
\* Afternoon for 12..16, Evening for 17..20, Night for 21..23 and 0..4.
C7_TimeOfDayTotal ==
    \A i \in DOMAIN df :
        df[i].Hour \in 0..23 => df[i].Time_of_Day = CategoryTable(df[i].Hour)

C7_Witness ==
    /\ pc = "serving"
    /\ {df[i].Hour : i \in DOMAIN df} = 0..23
    /\ \A i \in DOMAIN df : df[i].Time_of_Day = CategoryTable(df[i].Hour)
    /\ {df[i].Hour : i \in {j \in DOMAIN df : df[j].Time_of_Day = "Night"}}
          = (21..23) \cup (0..4)

(* ---- C8 ---- *)
\* C8: on a view of zero rows the insight generator fails with an explicit
\* EmptyViewError or returns a "no data" result, and the pass that computed
\* the view still returns its (degenerate) outputs.
C8_EmptyViewHandled ==
    (selected.called /\ filtered_df = <<>>) =>
        /\ insights.raised \in {"none", "EmptyViewError"}
        /\ response.status = "ok"

(* ---- C10 ---- *)
TimesOf(view) == {view[i].Time_of_Day : i \in DOMAIN view}
TimeTotal(view, t) == SalesWhere(view, "Time_of_Day", t)

\* C10: on a non-empty view the reported peak time of day is a category of
\* the view whose summed sales are at least those of every other category,
\* the reported share is its summed sales / total sales * 100 (total # 0,
\* where the quotient is a number), and the first recommendation names the
\* same category.
C10_PeakTime ==
    (pc # "start" /\ View # <<>>) =>
        LET peak == insights.insights[1].subject
        IN  /\ insights.raised = "none"
            /\ peak \in TimesOf(View)
            /\ \A t \in TimesOf(View) : TimeTotal(View, t) <= TimeTotal(View, peak)
            /\ Total(View) # 0 =>
                  insights.insights[1].share =
                      Percent(TimeTotal(View, peak), Total(View))
            /\ insights.recommendations[1].subject = peak

C10_Witness ==
    /\ selected.called
    /\ Cardinality(TimesOf(filtered_df)) = 2
    /\ Total(filtered_df) # 0
    /\ insights.raised = "none"
    /\ insights.insights[1].subject = "Morning"
    /\ \A t \in TimesOf(filtered_df) \ {"Morning"} :
          TimeTotal(filtered_df, t) < TimeTotal(filtered_df, "Morning")
    /\ insights.insights[1].share = Percent(TimeTotal(filtered_df, "Morning"),
                                            Total(filtered_df))
    /\ insights.recommendations[1].subject = "Morning"

(* ---- C11 ---- *)
\* the place of a category in the order Morning, Afternoon, Evening, Night
FixedPlace(t) ==
    CASE t = "Morning" -> 1
      [] t = "Afternoon" -> 2
      [] t = "Evening" -> 3
      [] t = "Night" -> 4

\* C11: the time-of-day series lists exactly the categories present in the
\* view, in the fixed order Morning, Afternoon, Evening, Night, each with the
\* summed sales of the view's rows of that category.
C11_TimeOfDaySeries ==
    selected.called =>
        /\ {time_of_day_fig[i].key : i \in DOMAIN time_of_day_fig}
              = TimesOf(filtered_df)
        /\ \A i, j \in DOMAIN time_of_day_fig :
              i < j => FixedPlace(time_of_day_fig[i].key)
                          < FixedPlace(time_of_day_fig[j].key)
        /\ \A i \in DOMAIN time_of_day_fig :
              time_of_day_fig[i].sum = TimeTotal(filtered_df, time_of_day_fig[i].key)

\* all four categories, with amounts that neither rise nor fall along the order
C11_Witness ==
    /\ selected.called
    /\ Len(time_of_day_fig) = 4
    /\ [i \in 1..4 |-> time_of_day_fig[i].key]
          = <<"Morning", "Afternoon", "Evening", "Night">>
    /\ time_of_day_fig[1].sum > time_of_day_fig[2].sum
    /\ time_of_day_fig[2].sum < time_of_day_fig[3].sum
    /\ \A i \in 1..4 :
          time_of_day_fig[i].sum = TimeTotal(filtered_df, time_of_day_fig[i].key)

(* ---- C12 ---- *)
RepsOf(view) == {view[i].Sales_Rep_ID : i \in DOMAIN view}

RepTotal(view, col, rep) ==
    SumOver(view, {i \in DOMAIN view : view[i].Sales_Rep_ID = rep}, col)

RankedReps == {sales_rep_fig[i].key : i \in DOMAIN sales_rep_fig}

Least(a, b) == IF a <= b THEN a ELSE b

\* C12: the rep ranking has min(10, number of reps in the view) entries, one
\* per rep, each with that rep's summed sales and summed profit, in
\* non-increasing order of summed sales, and no rep left out has sold more
\* than a rep that is in.
C12_RepRanking ==
    selected.called =>
        /\ Len(sales_rep_fig) = Least(10, Cardinality(RepsOf(filtered_df)))
        /\ RankedReps \subseteq RepsOf(filtered_df)
        /\ Cardinality(RankedReps) = Len(sales_rep_fig)
        /\ \A i \in DOMAIN sales_rep_fig :
              /\ sales_rep_fig[i].sum
                    = RepTotal(filtered_df, "Total_Sales", sales_rep_fig[i].key)
              /\ sales_rep_fig[i].Profit
                    = RepTotal(filtered_df, "Profit", sales_rep_fig[i].key)
        /\ \A i, j \in DOMAIN sales_rep_fig :
              i < j => sales_rep_fig[i].sum >= sales_rep_fig[j].sum
        /\ \A out \in RepsOf(filtered_df) \ RankedReps :
              \A i \in DOMAIN sales_rep_fig :
                 RepTotal(filtered_df, "Total_Sales", out) <= sales_rep_fig[i].sum

\* more than ten reps in the view, one of them with two rows, the ranking not
\* in the order of the rep ids nor of the profits, and a rep left out
C12_Witness ==
    /\ selected.called
    /\ Cardinality(RepsOf(filtered_df)) > 10
    /\ Len(filtered_df) > Cardinality(RepsOf(filtered_df))
    /\ Len(sales_rep_fig) = 10
    /\ RepsOf(filtered_df) \ RankedReps # {}
    /\ sales_rep_fig[1].sum > sales_rep_fig[10].sum
    /\ \E i \in 1..9 : sales_rep_fig[i].key > sales_rep_fig[i + 1].key
    /\ \E i \in 1..9 : sales_rep_fig[i].Profit < sales_rep_fig[i + 1].Profit
    /\ \A i \in 1..9 : sales_rep_fig[i].sum >= sales_rep_fig[i + 1].sum

(* ---- C13 ---- *)
\* what update_dashboard returns for the selection sel when it is the first
\* call after create_dash_app(csv)
FirstCall(sel) ==
    LET frame == load_and_preprocess_data(csv)
        view == ApplyFilters(frame, sel.regions, sel.times, sel.year)
    IN  [view |-> view,
         response |-> Response(calculate_advanced_metrics(view),
                               plot_sales_by_time_of_day(view),
                               plot_product_sales_share(view),
                               create_sales_rep_performance_chart(view),
                               generate_insights_and_recommendations(view))]

\* C13: whatever filter changes came before, the loaded record set is the one
\* create_dash_app built from the file, and the result of the latest call of
\* update_dashboard is the result the same selection gives as the first call.
C13_LatestCallOnly ==
    /\ pc # "start" => df = load_and_preprocess_data(csv)
    /\ selected.called =>
          /\ filtered_df = FirstCall(selected).view
          /\ response = FirstCall(selected).response

\* a selection on two dropdowns, reached by at least three calls, that keeps
\* some rows and drops others, answered without an exception
C13_Witness ==
    /\ selected.called
    /\ selected.regions # {}
    /\ selected.times # {}
    /\ response.status = "ok"
    /\ Len(filtered_df) > 0
    /\ Len(filtered_df) < Len(df)
    /\ response = FirstCall(selected).response

====
